---- MODULE Spec2Model ----
(***************************************************************************)
(* keyword_generator.py: one run of main().  A text is a sequence of       *)
(* characters, each character a one-character string.  In texts that are   *)
(* only ever written or compared, never sliced (error messages, URLs, API  *)
(* keys), a run of ordinary characters is kept as one element.             *)
(* The backtick and the lone surrogate U+D800, which a TLA+ string cannot   *)
(* hold, are the elements Backtick and Surrogate.                          *)
(***************************************************************************)
EXTENDS Integers, Sequences

\* ------------------------------------------------------------ bounds

\* Longest `keywords` list a provider response carries.
MaxKeywords == 2
\* Most whitespace characters around a response text or inside a fence.
MaxPad == 1

\* ------------------------------------------------------------ characters

Quote == "\""
Backslash == "\\"
Surrogate == "<U+D800>"
Backtick == "<U+0060>"

\* What str.strip() removes (a subset: space, \t, \n, \r, \f).
PyWhitespace == {" ", "\t", "\n", "\r", "\f"}
\* What the json decoder skips between tokens.
JsonWhitespace == {" ", "\t", "\n", "\r"}
\* Control characters, which a JSON string may not hold unescaped.
ControlChars == {"\t", "\n", "\r", "\f"}
Digits == {"0", "1", "2", "3", "4", "5", "6", "7", "8", "9"}

DigitVal(c) ==
    CASE c = "0" -> 0 [] c = "1" -> 1 [] c = "2" -> 2 [] c = "3" -> 3
      [] c = "4" -> 4 [] c = "5" -> 5 [] c = "6" -> 6 [] c = "7" -> 7
      [] c = "8" -> 8 [] c = "9" -> 9

HexDigits == Digits \cup {"a", "b", "c", "d", "e", "f"}

HexVal(c) ==
    CASE c \in Digits -> DigitVal(c)
      [] c = "a" -> 10 [] c = "b" -> 11 [] c = "c" -> 12
      [] c = "d" -> 13 [] c = "e" -> 14 [] c = "f" -> 15

\* chr() on the code points a \uXXXX escape of the modelled inputs can name;
\* every code point in the surrogate block maps to the element Surrogate.
Chr(n) ==
    CASE n = 97 -> "a"
      [] n = 98 -> "b"
      [] n = 120 -> "x"
      [] n >= 55296 /\ n <= 57343 -> Surrogate
      [] OTHER -> "<U+other>"

\* ------------------------------------------------------------ str methods

RECURSIVE LStrip(_)
LStrip(s) ==
    IF s # <<>> /\ Head(s) \in PyWhitespace THEN LStrip(Tail(s)) ELSE s

RECURSIVE RStrip(_)
RStrip(s) ==
    IF s # <<>> /\ s[Len(s)] \in PyWhitespace
    THEN RStrip(SubSeq(s, 1, Len(s) - 1))
    ELSE s

\* str.strip()
Strip(s) == RStrip(LStrip(s))

\* str.startswith(p)
StartsWith(s, p) == Len(s) >= Len(p) /\ SubSeq(s, 1, Len(p)) = p

\* s[a:-b] for a, b > 0
Slice(s, a, b) ==
    IF Len(s) - b >= a + 1 THEN SubSeq(s, a + 1, Len(s) - b) ELSE <<>>

\* ------------------------------------------------------------ JSON values

JNull == [t |-> "null"]
JBool(b) == [t |-> "bool", b |-> b]
JNum(n) == [t |-> "num", n |-> n]
JStr(s) == [t |-> "str", s |-> s]
JList(items) == [t |-> "list", items |-> items]
\* members: a sequence of <<key, value>> pairs with distinct keys, in
\* insertion order, as a dict keeps them.
JObj(members) == [t |-> "obj", members |-> members]

IsStr(v) == v.t = "str"
IsList(v) == v.t = "list"
IsObj(v) == v.t = "obj"

HasKey(v, k) == \E i \in 1..Len(v.members) : v.members[i][1] = k
Lookup(v, k) ==
    v.members[CHOOSE i \in 1..Len(v.members) : v.members[i][1] = k][2]

\* dict[k] = x: a key already present keeps its place and takes the new value.
PutMember(members, k, x) ==
    IF \E i \in 1..Len(members) : members[i][1] = k
    THEN [i \in 1..Len(members) |->
            IF members[i][1] = k THEN <<k, x>> ELSE members[i]]
    ELSE Append(members, <<k, x>>)

\* A variant of Truthy: `keywords is not None` in place of `keywords`.
TruthyNotNone(v) == v.t # "null"

\* bool(v)
Truthy(v) ==
    CASE v.t = "null" -> FALSE
      [] v.t = "bool" -> v.b
      [] v.t = "num" -> v.n # 0
      [] v.t = "str" -> v.s # <<>>
      [] v.t = "list" -> v.items # <<>>
      [] v.t = "obj" -> v.members # <<>>

\* ------------------------------------------------------------ json.loads

Fail == [ok |-> FALSE]
Ok(v, next) == [ok |-> TRUE, val |-> v, next |-> next]

RECURSIVE SkipWS(_, _)
SkipWS(s, i) ==
    IF i <= Len(s) /\ s[i] \in JsonWhitespace THEN SkipWS(s, i + 1) ELSE i

Matches(s, i, lit) ==
    i + Len(lit) - 1 <= Len(s) /\ SubSeq(s, i, i + Len(lit) - 1) = lit

\* The body of a string from position i (after the opening quote).
RECURSIVE ScanString(_, _, _)
ScanString(s, i, acc) ==
    IF i > Len(s) THEN Fail
    ELSE IF s[i] = Quote THEN Ok(JStr(acc), i + 1)
    ELSE IF s[i] \in ControlChars THEN Fail
    ELSE IF s[i] # Backslash THEN ScanString(s, i + 1, Append(acc, s[i]))
    ELSE IF i + 1 > Len(s) THEN Fail
    ELSE IF s[i + 1] \in {Quote, Backslash, "/"}
         THEN ScanString(s, i + 2, Append(acc, s[i + 1]))
    ELSE IF s[i + 1] = "n" THEN ScanString(s, i + 2, Append(acc, "\n"))
    ELSE IF s[i + 1] = "t" THEN ScanString(s, i + 2, Append(acc, "\t"))
    ELSE IF s[i + 1] = "r" THEN ScanString(s, i + 2, Append(acc, "\r"))
    ELSE IF s[i + 1] = "f" THEN ScanString(s, i + 2, Append(acc, "\f"))
    ELSE IF s[i + 1] = "u"
            /\ i + 5 <= Len(s)
            /\ \A j \in (i + 2)..(i + 5) : s[j] \in HexDigits
         THEN ScanString(s, i + 6,
                  Append(acc, Chr(4096 * HexVal(s[i + 2]) + 256 * HexVal(s[i + 3])
                                  + 16 * HexVal(s[i + 4]) + HexVal(s[i + 5]))))
    ELSE Fail

RECURSIVE ScanDigits(_, _, _)
ScanDigits(s, i, n) ==
    IF i <= Len(s) /\ s[i] \in Digits
    THEN ScanDigits(s, i + 1, 10 * n + DigitVal(s[i]))
    ELSE Ok(JNum(n), i)

\* A non-negative integer; after a leading 0 the number ends.
ScanNumber(s, i) ==
    IF s[i] = "0" THEN Ok(JNum(0), i + 1) ELSE ScanDigits(s, i, 0)

RECURSIVE ParseValue(_, _)
RECURSIVE ParseItems(_, _, _)
RECURSIVE ParseMembers(_, _, _)

\* The elements of a list from position i (at an element).
ParseItems(s, i, acc) ==
    LET r == ParseValue(s, i) IN
    IF ~r.ok THEN Fail
    ELSE LET j == SkipWS(s, r.next) IN
         IF j > Len(s) THEN Fail
         ELSE IF s[j] = "]" THEN Ok(JList(Append(acc, r.val)), j + 1)
         ELSE IF s[j] = ","
              THEN ParseItems(s, SkipWS(s, j + 1), Append(acc, r.val))
         ELSE Fail

\* The members of an object from position i (at a key).
ParseMembers(s, i, acc) ==
    IF i > Len(s) \/ s[i] # Quote THEN Fail
    ELSE LET k == ScanString(s, i + 1, <<>>) IN
         IF ~k.ok THEN Fail
         ELSE LET c == SkipWS(s, k.next) IN
              IF c > Len(s) \/ s[c] # ":" THEN Fail
              ELSE LET r == ParseValue(s, SkipWS(s, c + 1)) IN
                   IF ~r.ok THEN Fail
                   ELSE LET j == SkipWS(s, r.next)
                            m == PutMember(acc, k.val.s, r.val)
                        IN
                        IF j > Len(s) THEN Fail
                        ELSE IF s[j] = "}" THEN Ok(JObj(m), j + 1)
                        ELSE IF s[j] = ","
                             THEN ParseMembers(s, SkipWS(s, j + 1), m)
                        ELSE Fail

ParseValue(s, i) ==
    IF i > Len(s) THEN Fail
    ELSE IF s[i] = Quote THEN ScanString(s, i + 1, <<>>)
    ELSE IF s[i] \in Digits THEN ScanNumber(s, i)
    ELSE IF Matches(s, i, <<"n", "u", "l", "l">>) THEN Ok(JNull, i + 4)
    ELSE IF Matches(s, i, <<"t", "r", "u", "e">>) THEN Ok(JBool(TRUE), i + 4)
    ELSE IF Matches(s, i, <<"f", "a", "l", "s", "e">>)
         THEN Ok(JBool(FALSE), i + 5)
    ELSE IF s[i] = "["
         THEN LET j == SkipWS(s, i + 1) IN
              IF j <= Len(s) /\ s[j] = "]" THEN Ok(JList(<<>>), j + 1)
              ELSE ParseItems(s, j, <<>>)
    ELSE IF s[i] = "{"
         THEN LET j == SkipWS(s, i + 1) IN
              IF j <= Len(s) /\ s[j] = "}" THEN Ok(JObj(<<>>), j + 1)
              ELSE ParseMembers(s, j, <<>>)
    ELSE Fail

\* json.loads(s): one value, whitespace around it, nothing after it.
JsonLoads(s) ==
    LET r == ParseValue(s, SkipWS(s, 1)) IN
    IF r.ok /\ SkipWS(s, r.next) = Len(s) + 1 THEN r ELSE Fail

\* ------------------------------------------------------------ json.dump

IsScalar(v) == v.t \in {"null", "bool", "num"}

DigitChar(d) ==
    CASE d = 0 -> "0" [] d = 1 -> "1" [] d = 2 -> "2" [] d = 3 -> "3"
      [] d = 4 -> "4" [] d = 5 -> "5" [] d = 6 -> "6" [] d = 7 -> "7"
      [] d = 8 -> "8" [] d = 9 -> "9"

\* int.__repr__ of a non-negative integer
RECURSIVE IntStr(_)
IntStr(n) ==
    IF n < 10 THEN <<DigitChar(n)>>
    ELSE Append(IntStr(n \div 10), DigitChar(n % 10))

ScalarText(v) ==
    CASE v.t = "null" -> <<"n", "u", "l", "l">>
      [] v.t = "bool" -> IF v.b THEN <<"t", "r", "u", "e">>
                         ELSE <<"f", "a", "l", "s", "e">>
      [] v.t = "num" -> IntStr(v.n)

\* A variant of EscapeChar: nothing is escaped.
EscapeCharVerbatim(c) == <<c>>

\* One character of a string under ensure_ascii=False: the quote, the
\* backslash and the control characters are escaped, everything else
\* (a lone surrogate too) is written as it is.
EscapeChar(c) ==
    CASE c = Quote -> <<Backslash, Quote>>
      [] c = Backslash -> <<Backslash, Backslash>>
      [] c = "\n" -> <<Backslash, "n">>
      [] c = "\r" -> <<Backslash, "r">>
      [] c = "\t" -> <<Backslash, "t">>
      [] c = "\f" -> <<Backslash, "f">>
      [] OTHER -> <<c>>

RECURSIVE EscapeAll(_)
EscapeAll(s) ==
    IF s = <<>> THEN <<>> ELSE EscapeChar(Head(s)) \o EscapeAll(Tail(s))

\* encode_basestring(s)
EncodeString(s) == <<Quote>> \o EscapeAll(s) \o <<Quote>>

RECURSIVE Spaces(_)
Spaces(n) == IF n = 0 THEN <<>> ELSE Append(Spaces(n - 1), " ")

IndentWidth == 2

\* '\n' + ' ' * (indent * level)
NewlineIndent(level) == <<"\n">> \o Spaces(IndentWidth * level)

\* The chunks the encoder yields for a value, in order; json.dump writes
\* them to the file one by one.
RECURSIVE Chunks(_, _)
RECURSIVE ListChunks(_, _, _)
RECURSIVE DictChunks(_, _, _)

\* _iterencode_list from element i on
ListChunks(items, i, level) ==
    IF i > Len(items) THEN <<NewlineIndent(level), <<"]">>>>
    ELSE LET buf == (IF i = 1 THEN <<"[">> ELSE <<",">>)
                    \o NewlineIndent(level + 1)
             v == items[i]
         IN
         (IF IsStr(v) THEN <<buf \o EncodeString(v.s)>>
          ELSE IF IsScalar(v) THEN <<buf \o ScalarText(v)>>
          ELSE <<buf>> \o Chunks(v, level + 1))
         \o ListChunks(items, i + 1, level)

\* _iterencode_dict from member i on
DictChunks(members, i, level) ==
    IF i > Len(members) THEN <<NewlineIndent(level), <<"}">>>>
    ELSE LET v == members[i][2] IN
         (IF i = 1 THEN <<>> ELSE <<<<",">> \o NewlineIndent(level + 1)>>)
         \o <<EncodeString(members[i][1]), <<":", " ">>>>
         \o (IF IsStr(v) THEN <<EncodeString(v.s)>>
             ELSE IF IsScalar(v) THEN <<ScalarText(v)>>
             ELSE Chunks(v, level + 1))
         \o DictChunks(members, i + 1, level)

\* _iterencode(o, level)
Chunks(v, level) ==
    IF IsStr(v) THEN <<EncodeString(v.s)>>
    ELSE IF IsScalar(v) THEN <<ScalarText(v)>>
    ELSE IF IsList(v)
         THEN IF v.items = <<>> THEN <<<<"[", "]">>>>
              ELSE ListChunks(v.items, 1, level)
    ELSE IF v.members = <<>> THEN <<<<"{", "}">>>>
         ELSE <<<<"{">>, NewlineIndent(level + 1)>>
              \o DictChunks(v.members, 1, level)

\* Whether the file's utf-8 encoder accepts the chunk: a lone surrogate
\* raises UnicodeEncodeError.
Encodable(chunk) == \A i \in 1..Len(chunk) : chunk[i] # Surrogate

\* for chunk in iterable: fp.write(chunk), on a file just opened with "w":
\* the content the file has when the loop ends or a write raises.
RECURSIVE WriteChunks(_, _, _)
WriteChunks(chunks, i, content) ==
    IF i > Len(chunks) THEN [ok |-> TRUE, content |-> content]
    ELSE IF ~Encodable(chunks[i]) THEN [ok |-> FALSE, content |-> content]
    ELSE WriteChunks(chunks, i + 1, content \o chunks[i])

\* with open(OUTPUT_FILENAME, "w", encoding="utf-8") as f:
\*     json.dump(obj, f, ensure_ascii=False, indent=2)
JsonDump(obj) == WriteChunks(Chunks(obj, 0), 1, <<>>)

KeywordsKey == <<"k", "e", "y", "w", "o", "r", "d", "s">>

\* {"keywords": v}
KeywordResult(v) == JObj(<<<<KeywordsKey, v>>>>)

\* ------------------------------------------------------------ CONFIG, errors

GEMINI_ENDPOINT ==
    "https://generativelanguage.googleapis.com/v1beta/models/gemini-1.5-flash-latest:generateContent"
OPENAI_ENDPOINT == "https://api.openai.com/v1/chat/completions"

\* An environment variable: unset (os.getenv gives None) or set to a text.
Unset == [set |-> FALSE]
SetTo(text) == [set |-> TRUE, val |-> text]

\* `if key:` is false for None and for the empty string.
Present(key) == key.set /\ key.val # <<>>

NoError == [type |-> "none"]
Error(type, msg) == [type |-> type, msg |-> msg]

\* str(e)
ErrorText(e) == e.msg

\* The literals of lines 57, 87 and 97, in ASCII.
NO_API_KEY_MESSAGE == <<"API key is not set. Check GitHub Secrets.">>
NO_KEYWORDS_MESSAGE == <<"AI did not produce valid keywords.">>
ERROR_PREFIX == <<"keyword generation error: ">>

\* type(v).__name__
PyTypeName(v) ==
    CASE v.t = "null" -> "NoneType"
      [] v.t = "bool" -> "bool"
      [] v.t = "num" -> "int"
      [] v.t = "str" -> "str"
      [] v.t = "list" -> "list"
      [] v.t = "obj" -> "dict"

NoAttribute(v, name) ==
    Error("AttributeError",
          <<"'", PyTypeName(v), "' object has no attribute '", name, "'">>)

\* len(v) is defined for str, list and dict; on the others it raises.
HasLen(v) == v.t \in {"str", "list", "obj"}

NoLen(v) ==
    Error("TypeError", <<"object of type '", PyTypeName(v), "' has no len()">>)

\* The message of a json decoding error names the place of the error in the
\* text; it is kept as one element.
JsonDecodeError == Error("JSONDecodeError", <<"Expecting value: (position)">>)

\* The UnicodeEncodeError of a lone surrogate written to the utf-8 file.
EncodeError ==
    Error("UnicodeEncodeError",
          <<"'utf-8' codec can't encode character '", Backslash, "ud800",
            "' in position (position): surrogates not allowed">>)

\* ------------------------------------------------------------ requests

\* The request requests.post(api_url, ...) sends.
GeminiRequest(key) ==
    [endpoint |-> GEMINI_ENDPOINT,
     url |-> <<GEMINI_ENDPOINT, "?key=">> \o key,
     authorization |-> <<>>]

OpenAIRequest(key) ==
    [endpoint |-> OPENAI_ENDPOINT,
     url |-> <<OPENAI_ENDPOINT>>,
     authorization |-> <<"Bearer ">> \o key]

\* requests.post raising: the message of the connection error names the URL.
ConnectionError(req) ==
    Error("ConnectionError",
          <<"Max retries exceeded with url: ">> \o req.url)

Reason(status) ==
    CASE status = 401 -> "Unauthorized"
      [] status = 500 -> "Internal Server Error"
      [] OTHER -> "Error"

\* response.raise_for_status(): an HTTPError for 4xx and 5xx, whose message
\* names the status, the reason and the URL of the request.
RaiseForStatus(status, req) ==
    IF status >= 400 /\ status < 500
    THEN Error("HTTPError",
               IntStr(status) \o <<" Client Error: ", Reason(status), " for url: ">>
               \o req.url)
    ELSE IF status >= 500 /\ status < 600
    THEN Error("HTTPError",
               IntStr(status) \o <<" Server Error: ", Reason(status), " for url: ">>
               \o req.url)
    ELSE NoError

\* obj[k]: k a key (a text) of a dict or an index of a list or of a string.
Key(name) == [k |-> "key", name |-> <<name>>]
Index(i) == [k |-> "index", i |-> i]

GetItem(v, step) ==
    IF step.k = "key"
    THEN IF IsObj(v)
         THEN IF HasKey(v, step.name)
              THEN [ok |-> TRUE, val |-> Lookup(v, step.name)]
              ELSE [ok |-> FALSE,
                    err |-> Error("KeyError", <<"'">> \o step.name \o <<"'">>)]
         ELSE [ok |-> FALSE,
               err |-> Error("TypeError",
                             <<"'", PyTypeName(v), "' object cannot be indexed by str">>)]
    ELSE IF IsList(v)
         THEN IF step.i + 1 <= Len(v.items)
              THEN [ok |-> TRUE, val |-> v.items[step.i + 1]]
              ELSE [ok |-> FALSE,
                    err |-> Error("IndexError", <<"list index out of range">>)]
    ELSE IF IsStr(v)
         THEN IF step.i + 1 <= Len(v.s)
              THEN [ok |-> TRUE, val |-> JStr(<<v.s[step.i + 1]>>)]
              ELSE [ok |-> FALSE,
                    err |-> Error("IndexError", <<"string index out of range">>)]
    ELSE IF IsObj(v)
         THEN [ok |-> FALSE, err |-> Error("KeyError", IntStr(step.i))]
    ELSE [ok |-> FALSE,
          err |-> Error("TypeError",
                        <<"'", PyTypeName(v), "' object is not subscriptable">>)]

RECURSIVE PathGet(_, _)
PathGet(v, path) ==
    IF path = <<>> THEN [ok |-> TRUE, val |-> v]
    ELSE LET r == GetItem(v, Head(path)) IN
         IF r.ok THEN PathGet(r.val, Tail(path)) ELSE r

\* json_response["candidates"][0]["content"]["parts"][0]["text"]
GeminiPath ==
    <<Key("candidates"), Index(0), Key("content"), Key("parts"), Index(0),
      Key("text")>>
\* json_response["choices"][0]["message"]["content"]
OpenAIPath == <<Key("choices"), Index(0), Key("message"), Key("content")>>

TextPath(p) == IF p = "gemini" THEN GeminiPath ELSE OpenAIPath

\* A variant of Select: the OpenAI key is looked at first.
SelectOpenAIFirst(gk, ok) ==
    IF Present(ok) THEN "openai" ELSE IF Present(gk) THEN "gemini" ELSE "none"

\* Which branch of call_ai runs: Gemini first, then OpenAI, else none.
Select(gk, ok) ==
    IF Present(gk) THEN "gemini" ELSE IF Present(ok) THEN "openai" ELSE "none"

RequestFor(p, gk, ok) ==
    IF p = "gemini" THEN GeminiRequest(gk.val) ELSE OpenAIRequest(ok.val)

\* Lines 37-40 and 51-54 after the request was sent: what call_ai returns
\* or raises on the reply.
Reply(p, req, resp) ==
    IF resp.kind = "connection_error"
    THEN [ok |-> FALSE, err |-> ConnectionError(req)]
    ELSE IF RaiseForStatus(resp.status, req) # NoError
    THEN [ok |-> FALSE, err |-> RaiseForStatus(resp.status, req)]
    ELSE IF ~resp.body.json
    THEN [ok |-> FALSE, err |-> JsonDecodeError]
    ELSE PathGet(resp.body.val, TextPath(p))

\* ------------------------------------------------------------ normalising

FENCE_OPEN == <<Backtick, Backtick, Backtick, "j", "s", "o", "n">>
FENCE_CLOSE == <<Backtick, Backtick, Backtick>>

FenceApplies(text) == StartsWith(Strip(text), FENCE_OPEN)

\* A variant of FenceSlice: ai_response_text[7:-3], the text not trimmed first.
FenceSliceUntrimmed(text) == Slice(text, 7, 3)

\* ai_response_text.strip()[7:-3]
FenceSlice(text) == Slice(Strip(text), 7, 3)

\* Lines 80-81.
Normalize(text) ==
    IF FenceApplies(text) THEN Strip(FenceSlice(text)) ELSE text

\* result.get("keywords", [])
GetKeywords(result) ==
    IF HasKey(result, KeywordsKey) THEN Lookup(result, KeywordsKey)
    ELSE JList(<<>>)

\* Lines 83-87 on the normalised text: the keywords, or the error raised.
Extract(text) ==
    LET r == JsonLoads(text) IN
    IF ~r.ok THEN [ok |-> FALSE, err |-> JsonDecodeError]
    ELSE IF ~IsObj(r.val) THEN [ok |-> FALSE, err |-> NoAttribute(r.val, "get")]
    ELSE IF ~Truthy(GetKeywords(r.val))
    THEN [ok |-> FALSE, err |-> Error("ValueError", NO_KEYWORDS_MESSAGE)]
    ELSE [ok |-> TRUE, val |-> GetKeywords(r.val)]

\* The object of line 97.
ErrorResult(e) == KeywordResult(JList(<<JStr(ERROR_PREFIX \o ErrorText(e))>>))

\* ------------------------------------------------------------ the provider

\* The texts a provider may return, written without indentation.
EscapeForProvider(c) ==
    IF c = Quote THEN <<Backslash, Quote>>
    ELSE IF c = Backslash THEN <<Backslash, Backslash>>
    ELSE IF c = Surrogate THEN <<Backslash, "u", "d", "8", "0", "0">>
    ELSE <<c>>

RECURSIVE CompactString(_)
CompactString(s) ==
    IF s = <<>> THEN <<>>
    ELSE EscapeForProvider(Head(s)) \o CompactString(Tail(s))

RECURSIVE Compact(_)
RECURSIVE CompactItems(_, _)
RECURSIVE CompactMembers(_, _)

CompactItems(items, i) ==
    IF i > Len(items) THEN <<>>
    ELSE (IF i = 1 THEN <<>> ELSE <<",">>) \o Compact(items[i])
         \o CompactItems(items, i + 1)

CompactMembers(members, i) ==
    IF i > Len(members) THEN <<>>
    ELSE (IF i = 1 THEN <<>> ELSE <<",">>)
         \o <<Quote>> \o CompactString(members[i][1]) \o <<Quote, ":">>
         \o Compact(members[i][2])
         \o CompactMembers(members, i + 1)

Compact(v) ==
    IF IsStr(v) THEN <<Quote>> \o CompactString(v.s) \o <<Quote>>
    ELSE IF IsScalar(v) THEN ScalarText(v)
    ELSE IF IsList(v) THEN <<"[">> \o CompactItems(v.items, 1) \o <<"]">>
    ELSE <<"{">> \o CompactMembers(v.members, 1) \o <<"}">>

SeqsUpTo(S, n) == UNION {[1..k -> S] : k \in 0..n}

KeywordStrings == {<<"a">>, <<"b", Quote>>, <<Surrogate>>}

KeywordLists ==
    {JList(items) : items \in SeqsUpTo({JStr(k) : k \in KeywordStrings}, MaxKeywords)}

\* Values of the `keywords` field that are not lists of strings.
OtherKeywordValues ==
    {JStr(<<"a", "b">>), JStr(<<>>), JNum(5), JNum(0), JNull, JBool(TRUE),
     JObj(<<<<<<"a">>, JNum(1)>>>>), JObj(<<>>),
     JList(<<JStr(<<"a">>), JNum(5)>>), JList(<<JList(<<>>)>>)}

\* The JSON values a provider text may hold.
ProviderValues ==
    {KeywordResult(v) : v \in KeywordLists \cup OtherKeywordValues}
    \cup {JObj(<<>>),
          JObj(<<<<<<"o">>, JList(<<JStr(<<"a">>)>>)>>>>),
          JObj(<<<<<<"o">>, JNum(1)>>, <<KeywordsKey, JList(<<JStr(<<"a">>)>>)>>>>),
          JList(<<JStr(<<"a">>)>>), JStr(<<"a">>), JNum(5), JNull}

PadChars == {"\n", "\f"}
Pads == SeqsUpTo(PadChars, MaxPad)

Plain(pad, j) == pad \o j \o pad
Fenced(pad, j) ==
    pad \o FENCE_OPEN \o <<"\n">> \o j \o <<"\n">> \o FENCE_CLOSE \o pad
FencedTight(j) == FENCE_OPEN \o j \o FENCE_CLOSE
Unclosed(j) == FENCE_OPEN \o <<"\n">> \o j

NotJsonText == <<"n", "o", "t", " ", "j", "s", "o", "n">>
ShortFenceText == FENCE_OPEN \o <<Backtick, Backtick>>

ProviderTexts ==
    LET J == {Compact(v) : v \in ProviderValues} IN
    {Plain(p, j) : p \in Pads, j \in J}
    \cup {Fenced(p, j) : p \in Pads, j \in J}
    \cup {FencedTight(j) : j \in J}
    \cup {Unclosed(j) : j \in J}
    \cup {NotJsonText, ShortFenceText, <<>>}

GeminiEnvelope(t) ==
    JObj(<<<<<<"candidates">>,
             JList(<<JObj(<<<<<<"content">>,
                              JObj(<<<<<<"parts">>,
                                       JList(<<JObj(<<<<<<"text">>, t>>>>)>>)>>>>)>>>>)>>)>>>>)

OpenAIEnvelope(t) ==
    JObj(<<<<<<"choices">>,
             JList(<<JObj(<<<<<<"message">>,
                              JObj(<<<<<<"content">>, t>>>>)>>>>)>>)>>>>)

Envelope(p, t) == IF p = "gemini" THEN GeminiEnvelope(t) ELSE OpenAIEnvelope(t)

JsonBody(v) == [json |-> TRUE, val |-> v]
NotJsonBody == [json |-> FALSE]

\* Bodies of a reply to provider p: its envelope around every text, and
\* the malformed ones.
OddBodies(p) ==
    {NotJsonBody, JsonBody(JObj(<<>>)), JsonBody(Envelope(p, JNull)),
     JsonBody(Envelope(p, JNum(5))),
     JsonBody(Envelope(IF p = "gemini" THEN "openai" ELSE "gemini",
                       JStr(Compact(KeywordResult(JList(<<JStr(<<"a">>)>>))))))}

Bodies(p) == {JsonBody(Envelope(p, JStr(t))) : t \in ProviderTexts} \cup OddBodies(p)

Statuses == {200, 304, 401, 500}

HttpResponse(status, body) == [kind |-> "http", status |-> status, body |-> body]

\* What the HTTP layer may answer to a request to provider p.
Responses(p) ==
    {[kind |-> "connection_error"]}
    \cup {HttpResponse(200, b) : b \in Bodies(p)}
    \cup {HttpResponse(st, b) : st \in Statuses \ {200}, b \in OddBodies(p)}

GeminiKeys == {Unset, SetTo(<<>>), SetTo(<<"G1">>), SetTo(<<"G2">>)}
OpenAIKeys == {Unset, SetTo(<<>>), SetTo(<<"O1">>), SetTo(<<"O2">>)}

\* ------------------------------------------------------------ main()

VARIABLES
    pc,                 \* where main() is
    gemini_key,         \* os.getenv("GEMINI_API_KEY")
    openai_key,         \* os.getenv("OPENAI_API_KEY")
    provider,           \* the branch of call_ai taken
    requests,           \* the requests sent, in order
    response,           \* the reply to the request
    returned,           \* what call_ai returned
    ai_response_text,   \* the variable of lines 78-83
    keywords,           \* the variable of line 84
    error,              \* the exception caught at line 94
    file,               \* the output file
    writes,             \* the times the output file was opened and written
    stages,             \* the states of the run so far
    raised              \* the exception main() ends with

vars ==
    <<pc, gemini_key, openai_key, provider, requests, response, returned,
      ai_response_text, keywords, error, file, writes, stages, raised>>

NoValue == [t |-> "unset"]
NoResponse == [kind |-> "none"]
NoFile == [exists |-> FALSE, content |-> <<>>]
FileWith(content) == [exists |-> TRUE, content |-> content]

Init ==
    /\ pc = "start"
    /\ gemini_key \in GeminiKeys
    /\ openai_key \in OpenAIKeys
    /\ provider = "none"
    /\ requests = <<>>
    /\ response = NoResponse
    /\ returned = NoValue
    /\ ai_response_text = NoValue
    /\ keywords = NoValue
    /\ error = NoError
    /\ file = NoFile
    /\ writes = <<>>
    /\ stages = <<"START">>
    /\ raised = NoError

\* An exception raised inside the try block: control goes to line 94.
Raise(e) ==
    /\ error' = e
    /\ pc' = "except"
    /\ stages' = Append(stages, "ERROR")

\* Lines 63-74.
BuildPrompt ==
    /\ pc = "start"
    /\ pc' = "call_ai"
    /\ stages' = Append(stages, "PROMPT_BUILT")
    /\ UNCHANGED <<gemini_key, openai_key, provider, requests, response,
                   returned, ai_response_text, keywords, error, file, writes,
                   raised>>

\* Lines 27-30, 42, 56-57: the branch of call_ai.
SelectProvider ==
    /\ pc = "call_ai"
    /\ provider' = Select(gemini_key, openai_key)
    /\ IF provider' = "none"
       THEN Raise(Error("ValueError", NO_API_KEY_MESSAGE))
       ELSE /\ pc' = "post"
            /\ stages' = Append(stages, "PROVIDER_SELECTED")
            /\ UNCHANGED error
    /\ UNCHANGED <<gemini_key, openai_key, requests, response, returned,
                   ai_response_text, keywords, file, writes, raised>>

\* Lines 32-40 or 43-54: the request, the reply, the text taken from it.
Post ==
    /\ pc = "post"
    /\ \E resp \in Responses(provider) :
         LET req == RequestFor(provider, gemini_key, openai_key)
             r == Reply(provider, req, resp)
         IN
         /\ requests' = Append(requests, req)
         /\ response' = resp
         /\ IF r.ok
            THEN /\ returned' = r.val
                 /\ ai_response_text' = r.val
                 /\ pc' = "normalize"
                 /\ stages' = Append(stages, "RESPONSE_RECEIVED")
                 /\ UNCHANGED error
            ELSE /\ Raise(r.err)
                 /\ UNCHANGED <<returned, ai_response_text>>
    /\ UNCHANGED <<gemini_key, openai_key, provider, keywords, file, writes,
                   raised>>

\* Lines 80-81.
StripFence ==
    /\ pc = "normalize"
    /\ IF IsStr(ai_response_text)
       THEN /\ ai_response_text' = JStr(Normalize(ai_response_text.s))
            /\ pc' = "loads"
            /\ UNCHANGED <<error, stages>>
       ELSE /\ Raise(NoAttribute(ai_response_text, "strip"))
            /\ UNCHANGED ai_response_text
    /\ UNCHANGED <<gemini_key, openai_key, provider, requests, response,
                   returned, keywords, file, writes, raised>>

\* Lines 83-87.
ExtractKeywords ==
    /\ pc = "loads"
    /\ LET r == Extract(ai_response_text.s) IN
       IF r.ok
       THEN /\ keywords' = r.val
            /\ pc' = "write"
            /\ stages' = Append(stages, "KEYWORDS_EXTRACTED")
            /\ UNCHANGED error
       ELSE /\ Raise(r.err)
            /\ UNCHANGED keywords
    /\ UNCHANGED <<gemini_key, openai_key, provider, requests, response,
                   returned, ai_response_text, file, writes, raised>>

\* Lines 89-90: the file is opened (and emptied), the chunks are written
\* until one cannot be encoded, the file is closed.
WriteKeywords ==
    /\ pc = "write"
    /\ LET w == JsonDump(KeywordResult(keywords)) IN
       /\ file' = FileWith(w.content)
       /\ writes' = Append(writes, [what |-> "keywords", complete |-> w.ok])
       /\ IF w.ok
          THEN /\ pc' = "written"
               /\ stages' = Append(stages, "FILE_WRITTEN")
               /\ UNCHANGED error
          ELSE Raise(EncodeError)
    /\ UNCHANGED <<gemini_key, openai_key, provider, requests, response,
                   returned, ai_response_text, keywords, raised>>

\* Line 92: len(keywords) for the message, and main() returns.
Return ==
    /\ pc = "written"
    /\ IF HasLen(keywords)
       THEN /\ pc' = "exit_ok"
            /\ stages' = Append(stages, "EXIT_OK")
            /\ UNCHANGED error
       ELSE Raise(NoLen(keywords))
    /\ UNCHANGED <<gemini_key, openai_key, provider, requests, response,
                   returned, ai_response_text, keywords, file, writes, raised>>

\* Lines 94-97.
WriteError ==
    /\ pc = "except"
    /\ LET w == JsonDump(ErrorResult(error)) IN
       /\ file' = FileWith(w.content)
       /\ writes' = Append(writes, [what |-> "error", complete |-> w.ok])
       /\ pc' = "raise"
       /\ stages' = Append(stages, "FILE_WRITTEN")
    /\ UNCHANGED <<gemini_key, openai_key, provider, requests, response,
                   returned, ai_response_text, keywords, error, raised>>

\* A variant of Reraise: the error is swallowed and main() returns.
SwallowError ==
    /\ pc = "raise"
    /\ pc' = "exit_ok"
    /\ stages' = Append(stages, "EXIT_OK")
    /\ UNCHANGED <<gemini_key, openai_key, provider, requests, response,
                   returned, ai_response_text, keywords, error, file, writes,
                   raised>>

\* Line 98.
Reraise ==
    /\ pc = "raise"
    /\ raised' = error
    /\ pc' = "exit_fail"
    /\ stages' = Append(stages, "EXIT_FAIL")
    /\ UNCHANGED <<gemini_key, openai_key, provider, requests, response,
                   returned, ai_response_text, keywords, error, file, writes>>

Next ==
    \/ BuildPrompt
    \/ SelectProvider
    \/ Post
    \/ StripFence
    \/ ExtractKeywords
    \/ WriteKeywords
    \/ Return
    \/ WriteError
    \/ Reraise

Spec == Init /\ [][Next]_vars

\* ------------------------------------------------------------ a whole run

\* The content main() leaves in the output file, as a function of the two
\* environment variables and the reply of the HTTP layer (lines 76-98).
ErrorFile(e) == JsonDump(ErrorResult(e)).content

MainFile(gk, ok, resp) ==
    LET p == Select(gk, ok) IN
    IF p = "none" THEN ErrorFile(Error("ValueError", NO_API_KEY_MESSAGE))
    ELSE LET r == Reply(p, RequestFor(p, gk, ok), resp) IN
         IF ~r.ok THEN ErrorFile(r.err)
         ELSE IF ~IsStr(r.val) THEN ErrorFile(NoAttribute(r.val, "strip"))
         ELSE LET e == Extract(Normalize(r.val.s)) IN
              IF ~e.ok THEN ErrorFile(e.err)
              ELSE LET w == JsonDump(KeywordResult(e.val)) IN
                   IF ~w.ok THEN ErrorFile(EncodeError)
                   ELSE IF ~HasLen(e.val) THEN ErrorFile(NoLen(e.val))
                   ELSE w.content

\* ------------------------------------------------------------ claims

Exits == {"exit_ok", "exit_fail"}
Ended == pc \in Exits

\* The value read back from the output file.
FileValue == JsonLoads(file.content)

\* The provider texts that are the JSON text of a value, bare or inside a
\* fence, each with the value: <<text, value>>.
BareCases == {<<Compact(v), v>> : v \in ProviderValues}
FencedCases == {<<Fenced(p, c[1]), c[2]>> : p \in Pads, c \in BareCases}

\* C1: at the end of a run the requests sent are fixed by which credentials
\* are present: the Gemini key present, exactly one request, to the Gemini
\* endpoint; only the OpenAI key present, exactly one, to the OpenAI endpoint;
\* neither, no request and the configuration error.
C1_RequestsFixedByCredentials ==
    Ended =>
        /\ Present(gemini_key) =>
               /\ Len(requests) = 1
               /\ requests[1].endpoint = GEMINI_ENDPOINT
        /\ (~Present(gemini_key) /\ Present(openai_key)) =>
               /\ Len(requests) = 1
               /\ requests[1].endpoint = OPENAI_ENDPOINT
        /\ (~Present(gemini_key) /\ ~Present(openai_key)) =>
               /\ requests = <<>>
               /\ pc = "exit_fail"
               /\ raised = Error("ValueError", NO_API_KEY_MESSAGE)

\* C1 witness: both keys present, the run ended, the one request went to Gemini.
C1_Witness ==
    /\ Ended
    /\ Present(gemini_key) /\ Present(openai_key)
    /\ requests = <<GeminiRequest(gemini_key.val)>>

\* C2: in every run the output file is written exactly once, with the
\* keywords on success or with the error entry on failure.
C2_WrittenExactlyOnce ==
    Ended =>
        /\ Len(writes) = 1
        /\ pc = "exit_ok" => writes[1].what = "keywords"
        /\ pc = "exit_fail" => writes[1].what = "error"

FileHoldsKeywords(fv) ==
    /\ keywords # NoValue
    /\ file.exists
    /\ fv.ok
    /\ fv.val = KeywordResult(keywords)

FileHoldsError(fv) ==
    /\ error # NoError
    /\ file.exists
    /\ fv.ok
    /\ fv.val = KeywordResult(JList(<<JStr(ERROR_PREFIX \o ErrorText(error))>>))

\* C3: at the end of a run the exit and the file agree: the run ends
\* without error exactly when the file holds the keywords extracted, and by
\* re-raising the error caught exactly when the file holds the one-element
\* array with the error message.
C3_ExitAgreesWithFile ==
    Ended =>
        LET fv == FileValue IN
        /\ pc = "exit_ok" <=> FileHoldsKeywords(fv)
        /\ pc = "exit_fail" <=> FileHoldsError(fv)
        /\ pc = "exit_ok" => error = NoError /\ raised = NoError
        /\ pc = "exit_fail" => error # NoError /\ raised = error

\* C3 witness: the text `not json` ended the run with the decoding error
\* re-raised and written to the file.
C3_Witness ==
    /\ pc = "exit_fail"
    /\ returned = JStr(NotJsonText)
    /\ raised = JsonDecodeError
    /\ FileHoldsError(FileValue)

IsStringList(v) ==
    IsList(v) /\ \A i \in 1..Len(v.items) : IsStr(v.items[i])

\* C4: after every run the file is {"keywords": <sequence of strings>},
\* non-empty on success, the single error message on failure.
C4_FileIsStringList ==
    Ended =>
        LET fv == FileValue IN
        /\ fv.ok
        /\ IsObj(fv.val)
        /\ Len(fv.val.members) = 1
        /\ HasKey(fv.val, KeywordsKey)
        /\ IsStringList(Lookup(fv.val, KeywordsKey))
        /\ Lookup(fv.val, KeywordsKey).items # <<>>
        /\ pc = "exit_fail" => Len(Lookup(fv.val, KeywordsKey).items) = 1

LacksKeywords(v) ==
    IsObj(v) /\ (~HasKey(v, KeywordsKey) \/ Lookup(v, KeywordsKey) = JList(<<>>))

\* C5: a response whose object has no `keywords` field, or an empty list
\* there, ends the run with the validation error: no keywords are written,
\* the file holds the one-element array with the message, the error is
\* propagated.
C5_NoKeywordsFails ==
    (Ended /\ IsStr(returned)
       /\ \E c \in BareCases \cup FencedCases :
              LacksKeywords(c[2]) /\ returned.s = c[1])
    =>
        LET fv == FileValue IN
        /\ pc = "exit_fail"
        /\ raised = Error("ValueError", NO_KEYWORDS_MESSAGE)
        /\ \A i \in 1..Len(writes) : writes[i].what # "keywords"
        /\ fv.ok
        /\ fv.val = KeywordResult(JList(<<JStr(ERROR_PREFIX \o NO_KEYWORDS_MESSAGE)>>))

\* C5 witness: the response {"keywords":[]} ended the run.
C5_Witness ==
    /\ pc = "exit_fail"
    /\ returned = JStr(Compact(KeywordResult(JList(<<>>))))
    /\ raised = Error("ValueError", NO_KEYWORDS_MESSAGE)

HasKeywordList(v) ==
    /\ IsObj(v)
    /\ HasKey(v, KeywordsKey)
    /\ IsList(Lookup(v, KeywordsKey))
    /\ Lookup(v, KeywordsKey).items # <<>>

\* C6: a response that is a JSON object text J with a non-empty keywords
\* list, inside a fence with whitespace around it, is parsed, and gives the
\* keywords that J alone gives.
C6_FencedSameAsBare ==
    (IsStr(returned) /\ pc \notin {"normalize", "loads"}) =>
        \A c \in FencedCases :
            (returned.s = c[1] /\ HasKeywordList(c[2])) =>
                LET bare == Extract(Compact(c[2])) IN
                /\ bare.ok
                /\ keywords = bare.val
                /\ keywords = Lookup(c[2], KeywordsKey)

\* C6 witness: a fenced two-keyword response, padded, was extracted.
C6_Witness ==
    /\ pc = "write"
    /\ returned
         = JStr(Fenced(<<"\n">>,
                       Compact(KeywordResult(JList(<<JStr(<<"a">>),
                                                     JStr(<<"b", Quote>>)>>)))))
    /\ keywords = JList(<<JStr(<<"a">>), JStr(<<"b", Quote>>)>>)

\* C7: on a successful run the file, read back, holds exactly the keywords
\* of the parsed response: the same elements in the same order.
C7_RoundTrip ==
    pc = "exit_ok" =>
        LET fv == FileValue IN
        /\ fv.ok
        /\ fv.val = KeywordResult(keywords)
        /\ \A c \in BareCases \cup FencedCases :
               returned.s = c[1] => keywords = Lookup(c[2], KeywordsKey)

\* C7 witness: a successful run whose keywords hold a quote character and
\* an element twice.
C7_Witness ==
    /\ pc = "exit_ok"
    /\ keywords = JList(<<JStr(<<"b", Quote>>), JStr(<<"b", Quote>>)>>)

Rank(stage) ==
    CASE stage = "START" -> 1
      [] stage = "PROMPT_BUILT" -> 2
      [] stage = "PROVIDER_SELECTED" -> 3
      [] stage = "RESPONSE_RECEIVED" -> 4
      [] stage \in {"KEYWORDS_EXTRACTED", "ERROR"} -> 5
      [] stage = "FILE_WRITTEN" -> 6
      [] stage \in {"EXIT_OK", "EXIT_FAIL"} -> 7

\* C8: a run passes through its states only in the order START,
\* PROMPT_BUILT, PROVIDER_SELECTED, RESPONSE_RECEIVED, KEYWORDS_EXTRACTED or
\* ERROR, FILE_WRITTEN, EXIT_OK or EXIT_FAIL; it sends at most one request,
\* none after an error or a write, and a write is followed only by the exit.
C8_LinearRun ==
    /\ \A i \in 1..(Len(stages) - 1) : Rank(stages[i]) < Rank(stages[i + 1])
    /\ Len(requests) <= 1
    /\ pc = "post" => error = NoError /\ writes = <<>>
    /\ writes # <<>> => pc \in {"written", "raise", "exit_ok", "exit_fail"}

\* C9: whenever the fence is stripped, what is removed is the leading
\* marker and the trailing marker, and nothing of the text between them.
C9_OnlyMarkersRemoved ==
    (pc = "loads" /\ FenceApplies(returned.s)) =>
        LET t == Strip(returned.s) IN
        /\ Len(t) >= Len(FENCE_OPEN) + Len(FENCE_CLOSE)
        /\ SubSeq(t, Len(t) - Len(FENCE_CLOSE) + 1, Len(t)) = FENCE_CLOSE
        /\ \E payload \in {SubSeq(t, Len(FENCE_OPEN) + 1, Len(t) - Len(FENCE_CLOSE))} :
               /\ t = FENCE_OPEN \o payload \o FENCE_CLOSE
               /\ ai_response_text.s = Strip(payload)

SamePresence(k1, k2) == Present(k1) <=> Present(k2)

\* C10: the file content at the end of a run is the same for every other
\* value of the keys that leaves the same credentials present, with the
\* same reply.
C10_FileIndependentOfKeys ==
    Ended =>
        \A g \in GeminiKeys : \A o \in OpenAIKeys :
            (SamePresence(g, gemini_key) /\ SamePresence(o, openai_key))
            => MainFile(g, o, response) = file.content

====
